---- MODULE Spec2Model ----
(***************************************************************************)
(* Model of ivobject/ivobject.py: the ValueObject construction pipeline    *)
(* (ValueObject.__new__), the ImmutableDict / tuple containers it binds,   *)
(* attribute interception, and equality / repr / hash.                     *)
(*                                                                         *)
(* Python values are tagged records; containers live on a heap so that     *)
(* aliasing between the caller, a type's declared defaults and an          *)
(* instance's fields is visible.  A construction call is __new__ from      *)
(* entry to return or raise: the __init__ of a concrete type belongs to    *)
(* the type's author and is only inspected, never called, by this code.    *)
(***************************************************************************)
EXTENDS Integers, Sequences, FiniteSets, TLC

\* ------------------------------------------------------------------ bounds
MaxArgs == 2         \* positional arguments supplied to one construction
MaxMutations == 1    \* successful in-place mutations of mutable containers

\* --------------------------------------------------------------- constants
MIN_NUMBER_ARGS == 1

\* ------------------------------------------------------------------ values
IntV(n) == [k |-> "int", v |-> n]
NoneV == [k |-> "none", v |-> 0]
Ref(a) == [k |-> "ref", v |-> a]
IsRef(v) == v.k = "ref"

\* Heap objects: kind plus items.  list / tuple / set hold a sequence of
\* values (for a set: its iteration order); dict / ImmutableDict hold a
\* sequence of [key, val] entries in insertion order.
Obj(kind, items) == [kind |-> kind, items |-> items]
Entry(key, val) == [key |-> key, val |-> val]

\* The objects the caller and the type declarations hold before any
\* construction, and their addresses on the heap.
CallerObjects == <<"inner", "list", "dict", "set", "default">>
Addr(name) == CHOOSE a \in 1..Len(CallerObjects) : CallerObjects[a] = name
InnerList == Addr("inner")
CallerList == Addr("list")
CallerDict == Addr("dict")
CallerSet == Addr("set")
DefaultList == Addr("default")

\* The two iteration orders a two-element set can have.
SetOrders == { <<IntV(1), IntV(2)>>, <<IntV(2), IntV(1)>> }

InitialHeap(setOrder) ==
    << Obj("list", <<IntV(1)>>),
       Obj("list", <<IntV(2), Ref(InnerList)>>),
       Obj("dict", <<Entry(IntV(1), IntV(2))>>),
       Obj("set", setOrder),
       Obj("list", << >>) >>

\* isinstance(value, dict) / isinstance(value, (list, set))
IsDict(h, v) == IsRef(v) /\ h[v.v].kind \in {"dict", "ImmutableDict"}
\* (variant: the set case of the isinstance test left out)
IsListOnly(h, v) == IsRef(v) /\ h[v.v].kind = "list"
IsListOrSet(h, v) == IsRef(v) /\ h[v.v].kind \in {"list", "set"}

\* ImmutableDict(value): a new ImmutableDict holding the same entries.
ImmutableDict(h, v) == Obj("ImmutableDict", h[v.v].items)
\* tuple(value): a new tuple holding the elements in iteration order.
Tuple(h, v) == Obj("tuple", h[v.v].items)

\* -------------------------------------------------------- type declarations
\* What inspect.getfullargspec reports for the __init__ of each concrete
\* type, and the members inspect.getmembers lists (sorted by name).
TypeNames == {"Point", "Range", "Empty", "Opaque"}

ArgsSpec(t) ==
    CASE t = "Point" -> [ok |-> TRUE, args |-> <<"self", "x", "y">>,
                         defaults |-> <<Ref(DefaultList)>>, varkw |-> FALSE]
      [] t = "Range" -> [ok |-> TRUE, args |-> <<"self", "x", "y">>,
                         defaults |-> << >>, varkw |-> TRUE]
      [] t = "Empty" -> [ok |-> TRUE, args |-> <<"self">>,
                         defaults |-> << >>, varkw |-> FALSE]
      [] OTHER       -> [ok |-> FALSE, args |-> << >>,
                         defaults |-> << >>, varkw |-> FALSE]

\* A member: its name (as tokens, "_" kept apart) and str(member) as tokens.
Member(name, str) == [name |-> name, str |-> str]

InitMember(t) == Member(<<"__init__">>, <<"<function ", t, ".", "__init__", ">">>)
HelperMember(t) == Member(<<"helper">>, <<"<function ", t, ".", "helper", ">">>)
GeneralMember(name) ==
    Member(name, <<"<function ", "invariant", ".<locals>.", "invariant_fn", ">">>)
ParamMember(name) ==
    Member(name, <<"<function ", "param_", "invariant", ".<locals>.",
                   "param_", "invariant_fn", ">">>)

LowBelowHigh == <<"low", "_", "below", "_", "high">>
XIsPositive == <<"x", "_", "is", "_", "positive">>

getmembers(t) ==
    IF t = "Range"
    THEN << InitMember(t), HelperMember(t),
            GeneralMember(LowBelowHigh), ParamMember(XIsPositive) >>
    ELSE << InitMember(t) >>

InvariantNames == {LowBelowHigh, XIsPositive}
\* What an invariant can return: True, False, or something that is no bool.
Results == {"True", "False", "NonBool"}
AllTrue == [n \in InvariantNames |-> "True"]

\* ------------------------------------------------------------ python helpers
Min(a, b) == IF a < b THEN a ELSE b
Reverse(s) == [i \in 1..Len(s) |-> s[Len(s) + 1 - i]]
zip(a, b) == [i \in 1..Min(Len(a), Len(b)) |-> <<a[i], b[i]>>]
EmptyDict == [n \in {} |-> NoneV]
\* dict(pairs): a later pair with the same key wins.
dict(pairs) ==
    [n \in {pairs[i][1] : i \in 1..Len(pairs)} |->
        LET last_i == CHOOSE i \in 1..Len(pairs) :
                        /\ pairs[i][1] = n
                        /\ \A j \in 1..Len(pairs) : pairs[j][1] = n => j <= i
        IN pairs[last_i][2]]
\* d.update(e)
update(d, e) ==
    [n \in DOMAIN d \cup DOMAIN e |-> IF n \in DOMAIN e THEN e[n] ELSE d[n]]
\* name in text, both token sequences
Contains(name, text) ==
    \E i \in 1..Len(text) :
        /\ i + Len(name) - 1 <= Len(text)
        /\ SubSeq(text, i, i + Len(name) - 1) = name
\* A keyword argument as the caller wrote it.
Kw(name, val) == [name |-> name, val |-> val]
items(kwargs) == [i \in 1..Len(kwargs) |-> <<kwargs[i].name, kwargs[i].val>>]

\* ---------------------------------------------------- ValueObject.__new__
\* check_class_initialization: the error kind raised, or "none".
check_class_initialization(t, args, kwargs) ==
    IF Len(ArgsSpec(t).args) <= MIN_NUMBER_ARGS
    THEN "NotDeclaredArgsException"
    ELSE IF \E i \in 1..Len(args) : args[i] = NoneV
    THEN "ArgWithoutValueException"
    ELSE IF \E i \in 1..Len(kwargs) : kwargs[i].val = NoneV
    THEN "ArgWithoutValueException"
    ELSE "none"

\* replace_mutable_kwargs_with_immutable_types: each mapping value becomes a
\* new ImmutableDict, each list / set value a new tuple.  Yields the heap
\* and the kwargs after the loop.
RECURSIVE replace_mutable_kwargs_with_immutable_types(_, _, _)
replace_mutable_kwargs_with_immutable_types(h, kwargs, i) ==
    IF i > Len(kwargs) THEN [heap |-> h, kwargs |-> kwargs]
    ELSE LET value == kwargs[i].val
             fresh == Ref(Len(h) + 1)
         IN IF IsDict(h, value)
            THEN replace_mutable_kwargs_with_immutable_types(
                     Append(h, ImmutableDict(h, value)),
                     [kwargs EXCEPT ![i].val = fresh], i + 1)
            ELSE IF IsListOrSet(h, value)
            THEN replace_mutable_kwargs_with_immutable_types(
                     Append(h, Tuple(h, value)),
                     [kwargs EXCEPT ![i].val = fresh], i + 1)
            ELSE replace_mutable_kwargs_with_immutable_types(h, kwargs, i + 1)

\* The sanitized_args loop of assign_instance_arguments.
RECURSIVE sanitized_args(_, _, _, _)
sanitized_args(h, args, i, out) ==
    IF i > Len(args) THEN [heap |-> h, args |-> out]
    ELSE LET arg == args[i]
             fresh == Ref(Len(h) + 1)
         IN IF IsDict(h, arg)
            THEN sanitized_args(Append(h, ImmutableDict(h, arg)), args, i + 1,
                                Append(out, fresh))
            ELSE IF IsListOrSet(h, arg)
            THEN sanitized_args(Append(h, Tuple(h, arg)), args, i + 1,
                                Append(out, fresh))
            ELSE sanitized_args(h, args, i + 1, Append(out, arg))

\* Line 87: the declared defaults, paired with the trailing parameters.
default_fields(spec) ==
    dict(zip(Reverse(Tail(spec.args)), Reverse(spec.defaults)))

\* (variant: the two lists concatenated the other way round)
supplied_fields_named_first(spec, sanitized, kwargs) ==
    dict(items(kwargs) \o zip(Tail(spec.args), sanitized))

\* Line 98: positional bindings in declaration order, then the named ones.
supplied_fields(spec, sanitized, kwargs) ==
    dict(zip(Tail(spec.args), sanitized) \o items(kwargs))

\* assign_instance_arguments: the heap and the instance __dict__ after it.
assign_instance_arguments(h, t, args, kwargs) ==
    LET spec == ArgsSpec(t)
        san == sanitized_args(h, args, 1, << >>)
    IN [heap |-> san.heap,
        dict |-> update(update(EmptyDict, default_fields(spec)),
                        supplied_fields(spec, san.args, kwargs))]

is_invariant_method_with_name(method, name) ==
    Contains(name, method.str) /\ ~Contains(<<"__init__">>, method.str)
is_invariant(method) ==
    is_invariant_method_with_name(method, <<"invariant_fn">>)
is_param_invariant(method) ==
    is_invariant_method_with_name(method, <<"param_", "invariant_fn">>)

\* obtain_invariants: the names, in the order they will be executed.
obtain_invariants(t) ==
    LET param_invariants == SelectSeq(getmembers(t), is_param_invariant)
        invariants == SelectSeq(getmembers(t), is_invariant)
        all == param_invariants \o invariants
    IN [i \in 1..Len(all) |-> all[i].name]

\* name.replace('_', ' ') and the message of ViolatedInvariantException
RECURSIVE replace_underscores(_)
replace_underscores(name) ==
    IF name = << >> THEN ""
    ELSE (IF Head(name) = "_" THEN " " ELSE Head(name))
         \o replace_underscores(Tail(name))
violated_message(t, name) ==
    "Value in " \o t \o " violates \"" \o replace_underscores(name)
        \o "\" invariant rule"
missing_message(t) == "Missing value for " \o t

\* invariant_execute: the error it raises, or "none" with the bool returned.
invariant_execute(res, name) ==
    IF res[name] \notin {"True", "False"}
    THEN [err |-> "InvariantReturnValueException", value |-> FALSE]
    ELSE [err |-> "none", value |-> (res[name] = "True")]

\* check_invariants over the invariants from position i on: the error raised
\* (or "none"), its message, and the invariants executed, in order.
RECURSIVE check_invariants(_, _, _, _, _)
check_invariants(t, invs, res, i, executed) ==
    IF i > Len(invs) THEN [err |-> "none", msg |-> "", executed |-> executed]
    ELSE LET r == invariant_execute(res, invs[i])
             done == Append(executed, invs[i])
         IN IF r.err # "none"
            THEN [err |-> r.err, msg |-> "", executed |-> done]
            ELSE IF ~r.value
            THEN [err |-> "ViolatedInvariantException",
                  msg |-> violated_message(t, invs[i]), executed |-> done]
            ELSE check_invariants(t, invs, res, i + 1, done)

\* The whole of __new__ on heap h: the error raised ("none": the instance
\* is returned), the failure mode it stands for, the heap and __dict__.
new(h, t, args, kwargs, res) ==
    LET failed(err, mode, msg, executed) ==
            [err |-> err, mode |-> mode, msg |-> msg, heap |-> h,
             dict |-> EmptyDict, executed |-> executed]
    IN IF ~ArgsSpec(t).ok
       THEN failed("NotDeclaredArgsException", "SignatureUnavailable", "", << >>)
       ELSE LET pre == check_class_initialization(t, args, kwargs) IN
       IF pre = "NotDeclaredArgsException"
       THEN failed(pre, "NoDeclaredFields", "", << >>)
       ELSE IF pre # "none"
       THEN failed(pre, "ArgumentMissingValue", missing_message(t), << >>)
       ELSE LET kw == replace_mutable_kwargs_with_immutable_types(h, kwargs, 1)
                bound == assign_instance_arguments(kw.heap, t, args, kw.kwargs)
                inv == check_invariants(t, obtain_invariants(t), res, 1, << >>)
            IN IF inv.err = "InvariantReturnValueException"
               THEN failed(inv.err, "InvariantMalformed", inv.msg, inv.executed)
               ELSE IF inv.err # "none"
               THEN failed(inv.err, "InvariantViolated", inv.msg, inv.executed)
               ELSE [err |-> "none", mode |-> "none", msg |-> "",
                     heap |-> bound.heap, dict |-> bound.dict,
                     executed |-> inv.executed]

\* ------------------------------------------------- equality, repr, hash
DictKinds == {"dict", "ImmutableDict"}

\* Python's == on values: scalars by value, containers by kind and content.
RECURSIVE PyEq(_, _, _)
PyEq(h, v, w) ==
    IF ~IsRef(v) \/ ~IsRef(w) THEN v = w
    ELSE LET a == h[v.v]
             b == h[w.v]
         IN IF a.kind \in DictKinds /\ b.kind \in DictKinds
            THEN /\ Len(a.items) = Len(b.items)
                 /\ \A i \in 1..Len(a.items) : \E j \in 1..Len(b.items) :
                        /\ PyEq(h, a.items[i].key, b.items[j].key)
                        /\ PyEq(h, a.items[i].val, b.items[j].val)
            ELSE IF a.kind = "set" /\ b.kind = "set"
            THEN /\ Len(a.items) = Len(b.items)
                 /\ \A i \in 1..Len(a.items) : \E j \in 1..Len(b.items) :
                        PyEq(h, a.items[i], b.items[j])
            ELSE /\ a.kind = b.kind
                 /\ a.kind \in {"list", "tuple"}
                 /\ Len(a.items) = Len(b.items)
                 /\ \A i \in 1..Len(a.items) : PyEq(h, a.items[i], b.items[i])

\* self.__dict__ == other.__dict__
dict_eq(h, d, e) ==
    /\ DOMAIN d = DOMAIN e
    /\ \A n \in DOMAIN d : PyEq(h, d[n], e[n])

\* A comparison operand: an instance, or None.
Instance(i) == [k |-> "instance", v |-> i]

\* (variant: an __eq__ that also compares the concrete types)
eq_same_type(h, os, self, other) ==
    IF other = NoneV THEN [err |-> "none", value |-> FALSE]
    ELSE [err |-> "none",
          value |-> /\ os[self].type = os[other.v].type
                    /\ dict_eq(h, os[self].dict, os[other.v].dict)]

\* __eq__ and __ne__: the error raised ("none": it returns) and the result.
eq(h, os, self, other) ==
    IF other = NoneV THEN [err |-> "none", value |-> FALSE]
    ELSE [err |-> "none", value |-> dict_eq(h, os[self].dict, os[other.v].dict)]
ne(h, os, self, other) ==
    IF other = NoneV THEN [err |-> "AttributeError", value |-> FALSE]
    ELSE [err |-> "none", value |-> ~dict_eq(h, os[self].dict, os[other.v].dict)]

RECURSIVE join(_, _)
join(sep, strs) ==
    IF strs = << >> THEN ""
    ELSE IF Len(strs) = 1 THEN strs[1]
    ELSE strs[1] \o sep \o join(sep, Tail(strs))

\* "{}".format(value)
RECURSIVE format(_, _)
format(h, v) ==
    IF v.k = "none" THEN "None"
    ELSE IF v.k = "int" THEN ToString(v.v)
    ELSE LET o == h[v.v]
             n == Len(o.items)
             elems == [i \in 1..n |-> format(h, o.items[i])]
             pairs == [i \in 1..n |-> format(h, o.items[i].key) \o ": "
                                        \o format(h, o.items[i].val)]
         IN CASE o.kind \in DictKinds -> "{" \o join(", ", pairs) \o "}"
              [] o.kind = "list" -> "[" \o join(", ", elems) \o "]"
              [] o.kind = "set" ->
                    IF n = 0 THEN "set()" ELSE "{" \o join(", ", elems) \o "}"
              [] OTHER ->
                    IF n = 1 THEN "(" \o elems[1] \o ",)"
                    ELSE "(" \o join(", ", elems) \o ")"

\* __repr__: getattr raises AttributeError for a declared name not bound.
repr(h, o) ==
    LET names == Tail(ArgsSpec(o.type).args)
        args_values == [i \in 1..Len(names) |->
                          names[i] \o "=" \o format(h, o.dict[names[i]])]
    IN IF \E i \in 1..Len(names) : names[i] \notin DOMAIN o.dict
       THEN [err |-> "AttributeError", value |-> ""]
       ELSE [err |-> "none",
             value |-> o.type \o "(" \o join(", ", args_values) \o ")"]

\* hash(repr(self)): the hash of a str is a function of its characters, so
\* two hashes are compared through the strings they are taken of.
hash(h, o) == repr(h, o)

\* ------------------------------------------------------------------ state
VARIABLES
    heap,       \* the containers: address -> object
    objs,       \* the instances returned so far: [type, dict, frozen]
    last,       \* the last operation, its inputs and how it ended
    mutations,  \* successful in-place container mutations so far
    earlier     \* the failure raised before the last operation, if any

vars == <<heap, objs, last, mutations, earlier>>

\* The value of v with every container reached from it spelled out.
RECURSIVE Deep(_, _)
Deep(h, v) ==
    IF ~IsRef(v) THEN v
    ELSE LET o == h[v.v] IN
         [kind |-> o.kind,
          items |-> IF o.kind \in DictKinds
                    THEN [i \in 1..Len(o.items) |->
                            Entry(Deep(h, o.items[i].key), Deep(h, o.items[i].val))]
                    ELSE [i \in 1..Len(o.items) |-> Deep(h, o.items[i])]]
DeepDict(h, d) == [n \in DOMAIN d |-> Deep(h, d[n])]

\* ----------------------------------------------------------------- inputs
ArgValues == {NoneV, IntV(1), Ref(CallerList), Ref(CallerDict), Ref(CallerSet)}
ScalarValues == {NoneV, IntV(1), IntV(2)}
PairValues == {IntV(1), Ref(CallerList)}
KwNames == <<"y", "extra">>
ArgSeqs(V) == UNION {[1..n -> V] : n \in 0..MaxArgs}
KwSeq(f) ==
    LET present == SelectSeq(KwNames, LAMBDA n : n \in DOMAIN f)
    IN [i \in 1..Len(present) |-> Kw(present[i], f[present[i]])]
KwArgs(V) ==
    {KwSeq(f) : f \in UNION {[S -> V] :
                    S \in SUBSET {KwNames[i] : i \in 1..Len(KwNames)}}}
HasNone(args, kwargs) ==
    \/ \E i \in 1..Len(args) : args[i] = NoneV
    \/ \E i \in 1..Len(kwargs) : kwargs[i].val = NoneV

\* The results the invariants of type t can return during one construction.
ResultsOf(t) ==
    IF obtain_invariants(t) = << >> THEN {AllTrue} ELSE [InvariantNames -> Results]

NoFailure == [mode |-> "none", err |-> "none"]

Init ==
    /\ \E o \in SetOrders : heap = InitialHeap(o)
    /\ objs = << >>
    /\ last = [op |-> "init", err |-> "none", mode |-> "none"]
    /\ mutations = 0
    /\ earlier = NoFailure

\* --------------------------------------------------------------- actions
\* T(*args, **kwargs): ValueObject.__new__ from entry to return or raise.
New(t, args, kwargs, res) ==
    \E out \in {new(heap, t, args, kwargs, res)} :
       /\ heap' = out.heap
       /\ objs' = IF out.err = "none"
                  THEN Append(objs, [type |-> t, dict |-> out.dict,
                                     frozen |-> DeepDict(out.heap, out.dict)])
                  ELSE objs
       /\ last' = IF out.err = "none"
                  THEN [op |-> "new", err |-> "none", mode |-> "none",
                        type |-> t, id |-> Len(objs) + 1, args |-> args,
                        kwargs |-> kwargs, res |-> res,
                        executed |-> out.executed]
                  ELSE [op |-> "new", err |-> out.err, mode |-> out.mode,
                        type |-> t, msg |-> out.msg,
                        hasNone |-> HasNone(args, kwargs), res |-> res,
                        executed |-> out.executed]
       /\ UNCHANGED mutations

\* instance.name = value: __setattr__
SetAttr(i, name, value) ==
    /\ i \in 1..Len(objs)
    /\ last' = [op |-> "setattr", err |-> "CannotBeChangeException",
                mode |-> "MutationAfterFreeze", id |-> i, name |-> name,
                before |-> objs[i].dict]
    /\ UNCHANGED <<heap, objs, mutations>>

\* del instance.name: ValueObject defines no __delattr__, so object's runs.
DelAttr(i, name) ==
    /\ i \in 1..Len(objs)
    /\ IF name \in DOMAIN objs[i].dict
       THEN /\ objs' = [objs EXCEPT ![i].dict =
                          [n \in DOMAIN objs[i].dict \ {name} |-> objs[i].dict[n]]]
            /\ last' = [op |-> "delattr", err |-> "none", mode |-> "none",
                        id |-> i, name |-> name, before |-> objs[i].dict]
       ELSE /\ objs' = objs
            /\ last' = [op |-> "delattr", err |-> "AttributeError",
                        mode |-> "none", id |-> i, name |-> name,
                        before |-> objs[i].dict]
    /\ UNCHANGED <<heap, mutations>>

\* The mutating methods ImmutableDict overrides.
DictOps == {"__setitem__", "__delitem__", "clear", "update", "setdefault",
            "pop", "popitem"}

\* A mutating call on the container bound to a field: instance.name.op(...)
ContainerOp(i, name, cop) ==
    /\ i \in 1..Len(objs)
    /\ name \in DOMAIN objs[i].dict
    /\ IsRef(objs[i].dict[name])
    /\ LET a == objs[i].dict[name].v
           kind == heap[a].kind
           done(err) == [op |-> "container", err |-> err, mode |-> "none",
                         cop |-> cop, kind |-> kind, addr |-> a,
                         before |-> heap[a]]
       IN CASE kind = "ImmutableDict" /\ cop \in DictOps ->
                 /\ last' = done("CannotBeChangeException")
                 /\ UNCHANGED <<heap, mutations>>
            [] kind = "tuple" /\ cop = "append" ->
                 /\ last' = done("AttributeError")
                 /\ UNCHANGED <<heap, mutations>>
            [] kind = "list" /\ cop = "append" /\ mutations < MaxMutations ->
                 /\ heap' = [heap EXCEPT ![a].items = Append(@, IntV(1))]
                 /\ mutations' = mutations + 1
                 /\ last' = done("none")
            [] OTHER -> FALSE
    /\ UNCHANGED objs

\* The caller appends to a list it passed to the constructor earlier.
CallerAppend(a) ==
    /\ objs # << >>
    /\ a \in {InnerList, CallerList}
    /\ mutations < MaxMutations
    /\ heap' = [heap EXCEPT ![a].items = Append(@, IntV(1))]
    /\ mutations' = mutations + 1
    /\ last' = [op |-> "caller", err |-> "none", mode |-> "none", addr |-> a]
    /\ UNCHANGED objs

\* The failure of the last operation, kept when the next one replaces it.
Remember ==
    earlier' = IF last.mode # "none"
               THEN [mode |-> last.mode, err |-> last.err]
               ELSE earlier

\* ----------------------------------------------------- enumerated inputs
PositionalArgs == ArgSeqs(ArgValues)
NamedArgs == KwArgs(ArgValues)
ScalarPositionalArgs == ArgSeqs(ScalarValues)
ScalarNamedArgs == KwArgs(ScalarValues)
PairPositionalArgs == ArgSeqs(PairValues)
PairNamedArgs == KwArgs(PairValues)
\* Names a caller may try to assign or delete: a declared one and a new one.
AttrNames == {"x", "z"}
FieldNames == {"x", "y", "extra"}
ContainerOps == DictOps \cup {"append"}
\* The two operands of a comparison.
Operands == {"self", "other"}

\* ------------------------------------------------------- specifications
\* Spec: one construction call with arguments of every kind, then mutating
\* calls on the containers bound to the instance and on the originals.
Construct ==
    /\ objs = << >>
    /\ last.op # "new"
    /\ \E t \in TypeNames, args \in PositionalArgs, kwargs \in NamedArgs :
         \E res \in ResultsOf(t) : New(t, args, kwargs, res)
    /\ UNCHANGED earlier
MutateField ==
    /\ \E i \in 1..Len(objs), name \in FieldNames, cop \in ContainerOps :
         ContainerOp(i, name, cop)
    /\ UNCHANGED earlier
MutateOriginal ==
    /\ \E a \in 1..Len(CallerObjects) : CallerAppend(a)
    /\ UNCHANGED earlier

Next == Construct \/ MutateField \/ MutateOriginal
Spec == Init /\ [][Next]_vars

\* SpecFreeze: one instance with scalar fields, then attempts to assign and
\* to delete its attributes.
ConstructScalar ==
    /\ objs = << >>
    /\ last.op # "new"
    /\ \E t \in TypeNames, args \in ScalarPositionalArgs, kwargs \in ScalarNamedArgs :
         \E res \in ResultsOf(t) : New(t, args, kwargs, res)
    /\ UNCHANGED earlier
Assign ==
    /\ \E i \in 1..Len(objs), name \in AttrNames, value \in {IntV(2)} :
         SetAttr(i, name, value)
    /\ UNCHANGED earlier
Delete ==
    /\ \E i \in 1..Len(objs), name \in AttrNames : DelAttr(i, name)
    /\ UNCHANGED earlier

NextFreeze == ConstructScalar \/ Assign \/ Delete
SpecFreeze == Init /\ [][NextFreeze]_vars

\* SpecPair: two instances, of the same or of different types, to compare.
ConstructOperand ==
    /\ Len(objs) < Cardinality(Operands)
    /\ \E t \in TypeNames, args \in PairPositionalArgs, kwargs \in PairNamedArgs :
         New(t, args, kwargs, AllTrue)
    /\ UNCHANGED earlier

NextPair == ConstructOperand
SpecPair == Init /\ [][NextPair]_vars

\* SpecErr: construction calls and assignments, each failure remembered
\* when the next operation replaces it.
ConstructAgain ==
    /\ objs = << >>
    /\ \E t \in TypeNames, args \in ScalarPositionalArgs, kwargs \in ScalarNamedArgs :
         \E res \in ResultsOf(t) : New(t, args, kwargs, res)
    /\ Remember
AssignAgain ==
    /\ \E i \in 1..Len(objs), name \in AttrNames, value \in {IntV(2)} :
         SetAttr(i, name, value)
    /\ Remember

NextErr == ConstructAgain \/ AssignAgain
SpecErr == Init /\ [][NextErr]_vars

\* ================================================================ claims
\* The declared parameter names of a type, without the self-reference.
Declared(t) == {ArgsSpec(t).args[i] : i \in 2..Len(ArgsSpec(t).args)}
IsNamed(kwargs, f) == \E i \in 1..Len(kwargs) : kwargs[i].name = f
NamedValue(kwargs, f) ==
    kwargs[CHOOSE i \in 1..Len(kwargs) : kwargs[i].name = f].val
\* The position of a declared default among the trailing parameters.
DefaultIndex(spec, idx) == idx - (Len(spec.args) - Len(spec.defaults))
\* bound is what the caller supplied: the same scalar, or a container
\* holding what the supplied container holds.
BoundFrom(h, bound, supplied) ==
    IF IsRef(supplied)
    THEN IsRef(bound) /\ h[bound.v].items = h[supplied.v].items
    ELSE bound = supplied
Built == last.op = "new" /\ last.err = "none"

\* C1: after construction every attempt to set a field (existing or new)
\* and every attempt to delete a field fails with CannotBeChangeException
\* and leaves the field mapping as it was.
C1_MutationRejected ==
    last.op \in {"setattr", "delattr"} =>
        /\ last.err = "CannotBeChangeException"
        /\ objs[last.id].dict = last.before

\* C2: in a construction that succeeds, each declared parameter is bound to
\* its named argument if one was supplied, else to the positional argument
\* at its place in declaration order, else to its declared default, the
\* defaults belonging to the trailing parameters in the same order.
C2_Precedence ==
    Built =>
        LET spec == ArgsSpec(last.type)
            o == objs[last.id].dict
        IN \A idx \in 2..Len(spec.args) :
            LET f == spec.args[idx] IN
            IF IsNamed(last.kwargs, f)
            THEN f \in DOMAIN o
                 /\ BoundFrom(heap, o[f], NamedValue(last.kwargs, f))
            ELSE IF idx - 1 <= Len(last.args)
            THEN f \in DOMAIN o /\ BoundFrom(heap, o[f], last.args[idx - 1])
            ELSE IF DefaultIndex(spec, idx) >= 1
            THEN f \in DOMAIN o /\ o[f] = spec.defaults[DefaultIndex(spec, idx)]
            ELSE TRUE

\* A parameter with a default, a positional and a different named argument.
C2_Witness ==
    /\ Built
    /\ last.type = "Point"
    /\ Len(last.args) = 2
    /\ last.args[2] = IntV(1)
    /\ IsNamed(last.kwargs, "y")
    /\ NamedValue(last.kwargs, "y") = Ref(CallerDict)
    /\ heap[objs[last.id].dict["y"].v].kind = "ImmutableDict"

\* C3: two instances, of whatever types, are == exactly when their field
\* mappings are equal, != is the negation of ==, and an instance == None
\* is False.
C3_Equality ==
    \A i, j \in 1..Len(objs) :
        LET e == eq(heap, objs, i, Instance(j))
            n == ne(heap, objs, i, Instance(j))
        IN /\ e.err = "none" /\ n.err = "none"
           /\ e.value <=> (DeepDict(heap, objs[i].dict) = DeepDict(heap, objs[j].dict))
           /\ n.value <=> ~e.value
           /\ eq(heap, objs, i, NoneV) = [err |-> "none", value |-> FALSE]

\* Two instances of different types with equal fields, and a third case in
\* the same state: an instance compared with itself.
C3_Witness ==
    /\ Len(objs) = 2
    /\ objs[1].type # objs[2].type
    /\ objs[1].dict # EmptyDict
    /\ eq(heap, objs, 1, Instance(2)).value
    /\ ~ne(heap, objs, 1, Instance(2)).value

\* C4: two instances that compare equal have the same hash, that is, the
\* same canonical string TypeName(field1=value1, ...).
C4_EqualSameHash ==
    \A i, j \in 1..Len(objs) :
        eq(heap, objs, i, Instance(j)).value =>
            hash(heap, objs[i]) = hash(heap, objs[j])

\* The bindings a successful call made from supplied arguments: the named
\* ones, and the positional ones no named argument replaced.
SuppliedBindings ==
    LET spec == ArgsSpec(last.type)
    IN {<<last.kwargs[i].name, last.kwargs[i].val>> : i \in 1..Len(last.kwargs)}
       \cup {<<spec.args[i + 1], last.args[i]>> :
               i \in {k \in 1..Len(last.args) :
                        /\ k + 1 <= Len(spec.args)
                        /\ ~IsNamed(last.kwargs, spec.args[k + 1])}}
Elements(seq) == {seq[i] : i \in 1..Len(seq)}

\* C5: a supplied mapping is bound as an ImmutableDict with the same
\* entries, a supplied list or set as a tuple with the same elements (a
\* list's order kept), whether positional or named; and every mutating call
\* on such a bound container fails and leaves it as it was.
C5_Sanitized ==
    /\ Built =>
        \A b \in SuppliedBindings :
            LET supplied == b[2]
                bound == objs[last.id].dict[b[1]]
            IN IsRef(supplied) =>
                /\ IsRef(bound) /\ bound # supplied
                /\ heap[supplied.v].kind = "dict" =>
                      /\ heap[bound.v].kind = "ImmutableDict"
                      /\ heap[bound.v].items = heap[supplied.v].items
                /\ heap[supplied.v].kind = "list" =>
                      /\ heap[bound.v].kind = "tuple"
                      /\ heap[bound.v].items = heap[supplied.v].items
                /\ heap[supplied.v].kind = "set" =>
                      /\ heap[bound.v].kind = "tuple"
                      /\ Len(heap[bound.v].items) = Len(heap[supplied.v].items)
                      /\ Elements(heap[bound.v].items) = Elements(heap[supplied.v].items)
    /\ (last.op = "container" /\ last.kind \in {"ImmutableDict", "tuple"}) =>
        /\ last.err # "none"
        /\ last.kind = "ImmutableDict" => last.err = "CannotBeChangeException"
        /\ heap[last.addr] = last.before

\* A mutating call on an ImmutableDict bound from a supplied mapping.
C5_Witness ==
    /\ last.op = "container"
    /\ last.kind = "ImmutableDict"
    /\ last.cop = "popitem"
    /\ last.err = "CannotBeChangeException"
    /\ heap[last.addr].items = heap[CallerDict].items

\* The addresses of the containers reachable from a value.
RECURSIVE Reach(_, _)
Reach(h, v) ==
    IF ~IsRef(v) THEN {}
    ELSE LET o == h[v.v] IN
         {v.v} \cup UNION {IF o.kind \in DictKinds
                           THEN Reach(h, o.items[i].key) \cup Reach(h, o.items[i].val)
                           ELSE Reach(h, o.items[i]) : i \in 1..Len(o.items)}
ReachOf(h, o) == UNION {Reach(h, o.dict[f]) : f \in DOMAIN o.dict}

\* C6: every container reachable from a field of an instance is immutable,
\* is held by no other instance and by neither the caller nor the type
\* declaration, so the values seen through the fields never change.
C6_DeeplyOwned ==
    \A i \in 1..Len(objs) :
        /\ \A a \in ReachOf(heap, objs[i]) :
              /\ heap[a].kind \in {"tuple", "ImmutableDict"}
              /\ a \notin 1..Len(CallerObjects)
              /\ \A j \in 1..Len(objs) \ {i} : a \notin ReachOf(heap, objs[j])
        /\ DeepDict(heap, objs[i].dict) = objs[i].frozen

\* The invariants of a type by kind, in discovery order, as the naming
\* convention tells them apart.
Names(members) == [i \in 1..Len(members) |-> members[i].name]
ParameterInvariants(t) == Names(SelectSeq(getmembers(t), is_param_invariant))
GeneralInvariants(t) ==
    Names(SelectSeq(getmembers(t),
                    LAMBDA m : is_invariant(m) /\ ~is_param_invariant(m)))
CombinedOrder(t) == ParameterInvariants(t) \o GeneralInvariants(t)
FirstFailing(order, res) ==
    IF \A i \in 1..Len(order) : res[order[i]] = "True" THEN 0
    ELSE CHOOSE i \in 1..Len(order) :
            /\ res[order[i]] # "True"
            /\ \A j \in 1..(i - 1) : res[order[j]] = "True"
DisplayName(name) ==
    IF name = LowBelowHigh THEN "low below high" ELSE "x is positive"
InvariantPhase ==
    /\ last.op = "new"
    /\ last.mode \in {"none", "InvariantViolated", "InvariantMalformed"}

\* C7: in the invariant phase every execution of a parameter invariant
\* comes before every execution of a general invariant, the invariants run
\* are those of 'all parameter invariants, then all general invariants' up
\* to the first that fails, and its error is the one reported.
C7_InvariantOrder ==
    InvariantPhase =>
        LET order == CombinedOrder(last.type)
            k == FirstFailing(order, last.res)
            ex == last.executed
        IN /\ \A a, b \in 1..Len(ex) :
                 (a < b) => ~(/\ \E g \in 1..Len(GeneralInvariants(last.type)) :
                                   GeneralInvariants(last.type)[g] = ex[a]
                              /\ \E q \in 1..Len(ParameterInvariants(last.type)) :
                                   ParameterInvariants(last.type)[q] = ex[b])
           /\ ex = IF k = 0 THEN order ELSE SubSeq(order, 1, k)
           /\ k = 0 => last.err = "none"
           /\ (k > 0 /\ last.res[order[k]] = "NonBool") =>
                 last.err = "InvariantReturnValueException"
           /\ (k > 0 /\ last.res[order[k]] = "False") =>
                 /\ last.err = "ViolatedInvariantException"
                 /\ last.msg = "Value in " \o last.type \o " violates \""
                                 \o DisplayName(order[k]) \o "\" invariant rule"

\* C8: a construction call ends in an error with no instance, or in an
\* instance of a type with at least one field, built from arguments none of
\* which is None, with every declared field bound and every invariant True;
\* and a None argument to a type with fields is ArgWithoutValueException.
C8_AllOrNothing ==
    last.op = "new" =>
        /\ last.err # "none" => objs = << >>
        /\ last.err = "none" =>
              /\ Len(objs) = 1
              /\ Declared(last.type) # {}
              /\ ~HasNone(last.args, last.kwargs)
              /\ Declared(last.type) \subseteq DOMAIN objs[last.id].dict
              /\ \A i \in 1..Len(CombinedOrder(last.type)) :
                    last.res[CombinedOrder(last.type)[i]] = "True"
        /\ (last.err # "none" /\ last.hasNone /\ Declared(last.type) # {}) =>
              last.err = "ArgWithoutValueException"

\* C9: the field names of a returned instance are exactly the declared
\* parameter names of its type, the self-reference left out.
C9_ExactFields ==
    Built => DOMAIN objs[last.id].dict = Declared(last.type)

\* C10: two different failure modes never raise the same error kind.
C10_DistinctKinds ==
    (earlier.mode # "none" /\ last.mode # "none" /\ earlier.mode # last.mode)
        => earlier.err # last.err

====
